---- MODULE Spec2Model ----
(***************************************************************************)
(* Model of the Helen electricity-usage integration for Home Assistant:    *)
(*   sensor.py    RateLimiter, ElectricitySensor, the sensor platform      *)
(*                setup and the per-metering-point update callback         *)
(*   api.py       HelenApi: authenticate, fetch_metering_points,           *)
(*                fetch_usage                                              *)
(*   __init__.py  the integration's async_setup_entry                      *)
(***************************************************************************)
EXTENDS Integers, Sequences, FiniteSets, TLC

(***************************************************************************)
(* Program constants                                                       *)
(***************************************************************************)
\* RateLimiter.RATE_LIMIT: maximum calls per minute
RATE_LIMIT == 20
\* the window of rate_limit()'s filter: current_time - t < 60
WINDOW == 60

(***************************************************************************)
(* Bounds of the model                                                     *)
(***************************************************************************)
\* the clock (seconds) stops advancing here
MaxTime == 90
\* the outcomes of the first MaxChecks rate_limit() calls are logged
MaxChecks == 22
\* the span (seconds) within which the burst specification issues its checks
BurstSpan == 10

\* how far time.time() may have advanced between two rate_limit() calls
Steps == {0, 30, 59, 60}
\* the same, inside a burst
BurstSteps == {0, 5}

\* the clock bound of the specifications that run the whole integration
MaxPollTime == 60
\* the client specification stops after this many HTTP requests
MaxRequests == 3
\* the integration specification starts no poll tick after this many HTTP requests
MaxSetupRequests == 8

\* the two HelenApi instances: the integration's (__init__.py 34) and the
\* sensor platform's (sensor.py 90)
Apis == {"integration", "platform"}
\* metering point ids the Helen API may report
MeterIds == {"A", "B"}

VARIABLES
    now,                \* the value time.time() returned to the last rate_limit()
    last_called_times,  \* RateLimiter.last_called_times of the module's rate_limiter
    accepted,           \* history: the time of every call rate_limit() recorded
    results,            \* history: [t, ok] of the first MaxChecks rate_limit() calls
    lastOutcome         \* "none" | "passed" | "exceeded": how the last rate_limit() ended

VARIABLES
    token,              \* HelenApi.token of each client instance
    requests,           \* history: every HTTP request issued, [api, endpoint, token]
    lastCall            \* history: the last client call, how it ended and what it returned

VARIABLES
    pc,                 \* where the setup of the config entry stands
    setupResult,        \* "pending" | "ok" | "failed": what the integration's setup reported
    metering_points,    \* the list the sensor platform discovered
    idx,                \* position of the platform's loop in metering_points
    coordData,          \* DataUpdateCoordinator.data of each metering point's coordinator
    inflight,           \* per metering point: "idle", or "fetching" (suspended in fetch_usage)
    entities,           \* the platform's local list `entities`
    registered,         \* the entities handed to async_add_entities
    lastTick,           \* history: the last update callback that finished
    lastRead            \* history: the last native_value read

limiterVars == <<now, last_called_times, accepted, results, lastOutcome>>
apiVars == <<token, requests, lastCall>>
setupVars == <<pc, setupResult, metering_points, idx, coordData, inflight, entities,
               registered, lastTick, lastRead>>

vars == <<limiterVars, apiVars, setupVars>>

(***************************************************************************)
(* Python / JSON values, as tagged records                                 *)
(***************************************************************************)
PyNone == [t |-> "null"]
PyBool(b) == [t |-> "bool", b |-> b]
PyNum(n) == [t |-> "num", n |-> n]
PyStr(s) == [t |-> "str", s |-> s]
PyList(s) == [t |-> "list", s |-> s]
PyDict(f) == [t |-> "dict", f |-> f]
EmptyDict == PyDict([k \in {} |-> PyNone])
EmptyList == PyList(<<>>)
\* a response body that is not JSON
NotJson == [t |-> "invalid"]

\* Python truthiness (`if not self.token`, `if time_series`)
Truthy(v) ==
    CASE v.t = "null" -> FALSE
      [] v.t = "bool" -> v.b
      [] v.t = "num" -> v.n # 0
      [] v.t = "str" -> v.s # ""
      [] v.t = "list" -> Len(v.s) > 0
      [] v.t = "dict" -> DOMAIN v.f # {}
      [] OTHER -> TRUE

\* dict.get(key, default) on a dict
DictGet(d, key, default) == IF key \in DOMAIN d.f THEN d.f[key] ELSE default

(***************************************************************************)
(* RateLimiter (sensor.py 21-47)                                           *)
(***************************************************************************)
\* faulty variant of the filter: the comparison inverted, keeping the old timestamps
PruneInverted(times, current_time) ==
    SelectSeq(times, LAMBDA t : current_time - t > WINDOW)

\* the list comprehension of rate_limit(): [t for t in times if current_time - t < 60]
PruneTimes(times, current_time) ==
    SelectSeq(times, LAMBDA t : current_time - t < WINDOW)

\* faulty variant of rate_limit(): `>` for `>=` in the ceiling test
RateLimitOffByOne(times, current_time) ==
    LET pruned == PruneTimes(times, current_time)
    IN  IF Len(pruned) > RATE_LIMIT
          THEN [ok |-> FALSE, times |-> pruned]
          ELSE [ok |-> TRUE, times |-> Append(pruned, current_time)]

\* faulty variant of rate_limit(): the append moved before the ceiling test
RateLimitRecordsRejected(times, current_time) ==
    LET pruned == PruneTimes(times, current_time)
    IN  IF Len(pruned) >= RATE_LIMIT
          THEN [ok |-> FALSE, times |-> Append(pruned, current_time)]
          ELSE [ok |-> TRUE, times |-> Append(pruned, current_time)]

\* faulty variant of rate_limit(): the timestamp appended to the unpruned list
RateLimitAppendsToStale(times, current_time) ==
    LET pruned == PruneTimes(times, current_time)
    IN  IF Len(pruned) >= RATE_LIMIT
          THEN [ok |-> FALSE, times |-> pruned]
          ELSE [ok |-> TRUE, times |-> Append(times, current_time)]

\* rate_limit() as a function of the list and the clock: the list it leaves and
\* whether it returned (ok) or raised UpdateFailed
RateLimitCall(times, current_time) ==
    LET pruned == PruneTimes(times, current_time)
    IN  IF Len(pruned) >= RATE_LIMIT
          THEN [ok |-> FALSE, times |-> pruned]
          ELSE [ok |-> TRUE, times |-> Append(pruned, current_time)]

\* the effect of one rate_limit() call at current_time on the limiter and its history
LimiterStep(current_time) ==
    LET r == RateLimitCall(last_called_times, current_time)
    IN  /\ now' = current_time
        /\ last_called_times' = r.times
        /\ accepted' = IF r.ok THEN Append(accepted, current_time) ELSE accepted
        /\ results' = IF Len(results) < MaxChecks
                        THEN Append(results, [t |-> current_time, ok |-> r.ok])
                        ELSE results
        /\ lastOutcome' = IF r.ok THEN "passed" ELSE "exceeded"

(***************************************************************************)
(* HelenApi (api.py)                                                       *)
(***************************************************************************)
\* what the transport does with one request: an HTTP response (status, body)
\* or an error raised inside the session (aiohttp.ClientError, or the
\* asyncio.TimeoutError of the session's total timeout, which is no ClientError)
Http(status, body) == [err |-> "none", status |-> status, body |-> body]
ClientError == [err |-> "ClientError", status |-> 0, body |-> PyNone]
TimeoutError == [err |-> "TimeoutError", status |-> 0, body |-> PyNone]

\* a client call's result: the token it leaves, the value returned, the
\* exception that escaped ("none" if it returned), whether a request was sent
Returned(tok, value, sent) ==
    [token |-> tok, ret |-> value, raised |-> "none", requested |-> sent]
Raised(tok, exc) ==
    [token |-> tok, ret |-> PyNone, raised |-> exc, requested |-> TRUE]

\* HelenApi.authenticate
AuthenticateCall(tok, resp) ==
    CASE resp.err = "ClientError" -> Returned(tok, PyBool(FALSE), TRUE)
      [] resp.err = "TimeoutError" -> Raised(tok, "TimeoutError")
      [] OTHER ->
           IF resp.status = 200
             THEN CASE resp.body.t = "invalid" -> Raised(tok, "JSONDecodeError")
                    [] resp.body.t = "dict" ->
                         Returned(DictGet(resp.body, "access_token", PyNone),
                                  PyBool(TRUE), TRUE)
                    [] OTHER -> Raised(tok, "AttributeError")
             ELSE Returned(tok, PyBool(FALSE), TRUE)

\* a 403 message that passes the test "quota will be replenished" in message.lower()
\* (the test only chooses what is logged)
QuotaMessage == "Out of call volume quota. Quota will be replenished in 00:10:00."

\* HelenApi.fetch_metering_points
FetchMeteringPointsCall(tok, resp) ==
    IF ~Truthy(tok) THEN Returned(tok, EmptyList, FALSE)
    ELSE
    CASE resp.err = "ClientError" -> Returned(tok, EmptyList, TRUE)
      [] resp.err = "TimeoutError" -> Raised(tok, "TimeoutError")
      [] resp.status = 200 ->
           CASE resp.body.t = "invalid" -> Raised(tok, "JSONDecodeError")
             [] resp.body.t = "dict" -> Raised(tok, "KeyError")
             [] resp.body.t = "list" ->
                  IF Len(resp.body.s) = 0 THEN Raised(tok, "IndexError")
                  ELSE IF resp.body.s[1].t # "dict" THEN Raised(tok, "AttributeError")
                  ELSE Returned(tok, DictGet(resp.body.s[1], "meteringPointIds", EmptyList),
                                TRUE)
             [] OTHER -> Raised(tok, "TypeError")
      [] resp.status = 403 ->
           CASE resp.body.t = "invalid" -> Raised(tok, "JSONDecodeError")
             [] resp.body.t = "dict" ->
                  IF DictGet(resp.body, "message", PyStr("")).t # "str"
                    THEN Raised(tok, "AttributeError")
                    ELSE Returned(tok, EmptyList, TRUE)
             [] OTHER -> Raised(tok, "AttributeError")
      [] OTHER -> Returned(tok, EmptyList, TRUE)

\* faulty variant of fetch_usage: the `if not self.token` guard left out
FetchUsageNoTokenCheck(tok, resp) ==
    CASE resp.err = "ClientError" -> Returned(tok, EmptyDict, TRUE)
      [] resp.err = "TimeoutError" -> Raised(tok, "TimeoutError")
      [] resp.status = 200 ->
           IF resp.body.t = "invalid" THEN Raised(tok, "JSONDecodeError")
           ELSE Returned(tok, resp.body, TRUE)
      [] OTHER -> Returned(tok, EmptyDict, TRUE)

\* HelenApi.fetch_usage
FetchUsageCall(tok, resp) ==
    IF ~Truthy(tok) THEN Returned(tok, EmptyDict, FALSE)
    ELSE
    CASE resp.err = "ClientError" -> Returned(tok, EmptyDict, TRUE)
      [] resp.err = "TimeoutError" -> Raised(tok, "TimeoutError")
      [] resp.status = 200 ->
           IF resp.body.t = "invalid" THEN Raised(tok, "JSONDecodeError")
           ELSE Returned(tok, resp.body, TRUE)
      [] OTHER -> Returned(tok, EmptyDict, TRUE)

\* the transport outcomes the model feeds the three endpoints
TokenBodies ==
    { PyDict("access_token" :> PyStr("T")),   \* {"access_token": "T"}
      PyDict("access_token" :> PyStr("")),    \* {"access_token": ""}
      EmptyDict,                              \* {} : no access_token
      EmptyList,                              \* [] : not an object
      NotJson }
AuthResponses ==
    {Http(200, b) : b \in TokenBodies} \cup {Http(401, NotJson), ClientError, TimeoutError}

IdLists == {<<"A">>, <<"A", "B">>}
PointsBody(ids) ==
    PyList(<<PyDict("meteringPointIds" :> PyList(ids))>>)
MeteringResponses ==
    {Http(200, PointsBody(ids)) : ids \in IdLists}
    \cup {Http(200, b) : b \in {PyList(<<EmptyDict>>), EmptyList, EmptyDict, NotJson}}
    \cup {Http(403, b) : b \in {PyDict("message" :> PyStr(QuotaMessage)), EmptyList}}
    \cup {Http(500, NotJson), ClientError, TimeoutError}

\* the sum of the documented usage response
UsageSum == PyNum(12)
SeriesBody(series) == PyDict("timeSeriesResult" :> PyDict("timeSeries" :> series))
UsageBodies ==
    { SeriesBody(PyDict("sum" :> UsageSum)),   \* the documented response
      SeriesBody(PyDict("unit" :> PyStr("kWh"))),     \* timeSeries without sum
      SeriesBody(EmptyDict),                          \* timeSeries empty
      PyDict("timeSeriesResult" :> EmptyDict),        \* timeSeries missing
      PyDict("timeSeriesResult" :> PyNone),           \* timeSeriesResult null
      EmptyDict,
      NotJson }
UsageResponses ==
    {Http(200, b) : b \in UsageBodies} \cup {Http(500, NotJson), ClientError, TimeoutError}

(***************************************************************************)
(* The update callback, the coordinator and the entity (sensor.py)         *)
(***************************************************************************)
\* async_update_data after fetch_usage returned `data` (sensor.py 119-132):
\* the exception that leaves the callback ("none" if it returns) and the value
UpdateData(mp, data) ==
    IF data.t # "dict" THEN [raised |-> "AttributeError", value |-> PyNone]
    ELSE LET result == DictGet(data, "timeSeriesResult", EmptyDict)
         IN  IF result.t # "dict" THEN [raised |-> "AttributeError", value |-> PyNone]
             ELSE LET time_series == DictGet(result, "timeSeries", EmptyDict)
                  IN  IF ~Truthy(time_series)
                        THEN [raised |-> "UpdateFailed", value |-> PyNone]
                      ELSE IF time_series.t # "dict"
                        THEN [raised |-> "AttributeError", value |-> PyNone]
                        ELSE [raised |-> "none",
                              value |-> PyDict(mp :> DictGet(time_series, "sum", PyNone))]

\* the rest of async_update_data once fetch_usage has ended with `call`: an
\* exception of fetch_usage that is no aiohttp.ClientError passes the except clause
AfterFetch(mp, call) ==
    IF call.raised # "none" THEN [raised |-> call.raised, value |-> PyNone]
    ELSE UpdateData(mp, call.ret)

\* DataUpdateCoordinator.async_refresh with the callback's result: a failed
\* update keeps the data, a successful one replaces it
Refreshed(data, result) == IF result.raised = "none" THEN result.value ELSE data

\* a coordinator that does not exist (yet)
Absent == [t |-> "absent"]

\* ElectricitySensor.native_value: self.coordinator.data.get(self.meter_point_id)
NativeValue(mp, data) ==
    IF data.t # "dict" THEN [raised |-> "AttributeError", value |-> PyNone]
    ELSE [raised |-> "none", value |-> DictGet(data, mp, PyNone)]

\* whether a usage response carries timeSeriesResult.timeSeries.sum
HasSum(resp) ==
    /\ resp.err = "none" /\ resp.status = 200 /\ resp.body.t = "dict"
    /\ "timeSeriesResult" \in DOMAIN resp.body.f
    /\ resp.body.f["timeSeriesResult"].t = "dict"
    /\ "timeSeries" \in DOMAIN resp.body.f["timeSeriesResult"].f
    /\ resp.body.f["timeSeriesResult"].f["timeSeries"].t = "dict"
    /\ "sum" \in DOMAIN resp.body.f["timeSeriesResult"].f["timeSeries"].f

(***************************************************************************)
(* Initial state: module loaded, nothing set up                            *)
(***************************************************************************)
LimiterInit ==
    /\ now = 0
    /\ last_called_times = <<>>
    /\ accepted = <<>>
    /\ results = <<>>
    /\ lastOutcome = "none"

NoCall == [api |-> "none", op |-> "none", tokenBefore |-> PyNone, raised |-> "none",
           ret |-> PyNone, requested |-> FALSE, failed |-> FALSE]
NoTick == [mp |-> "none", passed |-> FALSE, hasSum |-> FALSE, raised |-> "none",
           before |-> Absent]
NoRead == [mp |-> "none", raised |-> "none", value |-> PyNone]

ApiInit ==
    /\ token = [a \in Apis |-> PyNone]
    /\ requests = <<>>
    /\ lastCall = NoCall

SetupInit ==
    /\ pc = "init_auth"
    /\ setupResult = "pending"
    /\ metering_points = <<>>
    /\ idx = 1
    /\ coordData = [m \in MeterIds |-> Absent]
    /\ inflight = [m \in MeterIds |-> "idle"]
    /\ entities = <<>>
    /\ registered = <<>>
    /\ lastTick = NoTick
    /\ lastRead = NoRead

Init == LimiterInit /\ ApiInit /\ SetupInit

(***************************************************************************)
(* The rate limiter on its own                                             *)
(***************************************************************************)
\* rate_limit() called on its own, the clock having advanced by d
rate_limit(d) ==
    /\ now + d <= MaxTime
    /\ LimiterStep(now + d)
    /\ UNCHANGED <<apiVars, setupVars>>

\* rate_limit() called in a burst: every call within BurstSpan of the start
rate_limit_burst(d) ==
    /\ now + d <= BurstSpan
    /\ Len(results) < MaxChecks
    /\ LimiterStep(now + d)
    /\ UNCHANGED <<apiVars, setupVars>>

NextRL == \E d \in Steps : rate_limit(d)

SpecRL == Init /\ [][NextRL]_vars

NextBurst == \E d \in BurstSteps : rate_limit_burst(d)

SpecBurst == Init /\ [][NextBurst]_vars

(***************************************************************************)
(* The client on its own                                                   *)
(***************************************************************************)
\* whether the transport failed the request: an error, or a status other than 200
Failed(resp) == resp.err # "none" \/ resp.status # 200

\* one client call's effect on the instance and on the history
ClientCall(api, op, endpoint, resp, call) ==
    /\ token' = [token EXCEPT ![api] = call.token]
    /\ requests' = IF call.requested
                     THEN Append(requests, [api |-> api, endpoint |-> endpoint,
                                            token |-> token[api]])
                     ELSE requests
    /\ lastCall' = [api |-> api, op |-> op, tokenBefore |-> token[api],
                    raised |-> call.raised, ret |-> call.ret,
                    requested |-> call.requested,
                    failed |-> call.requested /\ Failed(resp)]

authenticate(api, resp) ==
    /\ Len(requests) < MaxRequests
    /\ ClientCall(api, "authenticate", "token", resp, AuthenticateCall(token[api], resp))
    /\ UNCHANGED <<limiterVars, setupVars>>

fetch_metering_points(api, resp) ==
    /\ Len(requests) < MaxRequests
    /\ ClientCall(api, "fetch_metering_points", "metering-points", resp,
                  FetchMeteringPointsCall(token[api], resp))
    /\ UNCHANGED <<limiterVars, setupVars>>

fetch_usage(api, resp) ==
    /\ Len(requests) < MaxRequests
    /\ ClientCall(api, "fetch_usage", "time-series", resp,
                  FetchUsageCall(token[api], resp))
    /\ UNCHANGED <<limiterVars, setupVars>>

NextApi ==
    \E api \in Apis :
        \/ \E resp \in AuthResponses : authenticate(api, resp)
        \/ \E resp \in MeteringResponses : fetch_metering_points(api, resp)
        \/ \E resp \in UsageResponses : fetch_usage(api, resp)

SpecApi == Init /\ [][NextApi]_vars

(***************************************************************************)
(* Setup of a config entry and the poll ticks that follow                  *)
(***************************************************************************)
\* a setup step that ended the setup with `result`
SetupEnds(result) ==
    /\ pc' = "done"
    /\ setupResult' = result
    /\ UNCHANGED <<metering_points, idx, coordData, inflight, entities, registered,
                   lastTick, lastRead>>

\* a setup step that moved on to `next`
SetupMoves(next) ==
    /\ pc' = next
    /\ UNCHANGED <<setupResult, metering_points, idx, coordData, inflight, entities,
                   registered, lastTick, lastRead>>

\* __init__.async_setup_entry, step 2: `if not await api.authenticate(): return False`
\* (an exception that leaves the function fails the setup as well)
IntegrationAuthenticate(resp) ==
    /\ pc = "init_auth"
    /\ LET call == AuthenticateCall(token["integration"], resp)
       IN  /\ ClientCall("integration", "authenticate", "token", resp, call)
           /\ IF call.raised = "none" /\ Truthy(call.ret)
                THEN SetupMoves("init_discover")
                ELSE SetupEnds("failed")
    /\ UNCHANGED limiterVars

\* __init__.async_setup_entry, step 3: `if not metering_points: return False`
IntegrationDiscover(resp) ==
    /\ pc = "init_discover"
    /\ LET call == FetchMeteringPointsCall(token["integration"], resp)
       IN  /\ ClientCall("integration", "fetch_metering_points", "metering-points",
                         resp, call)
           /\ IF call.raised = "none" /\ Truthy(call.ret)
                THEN SetupMoves("sensor_auth")
                ELSE SetupEnds("failed")
    /\ UNCHANGED limiterVars

\* sensor.async_setup_entry with its own HelenApi: `if not await api.authenticate():
\* return`. The platform's return (or exception) does not fail the forwarding, and
\* __init__.async_setup_entry goes on to `return True`.
PlatformAuthenticate(resp) ==
    /\ pc = "sensor_auth"
    /\ LET call == AuthenticateCall(token["platform"], resp)
       IN  /\ ClientCall("platform", "authenticate", "token", resp, call)
           /\ IF call.raised = "none" /\ Truthy(call.ret)
                THEN SetupMoves("sensor_discover")
                ELSE SetupEnds("ok")
    /\ UNCHANGED limiterVars

\* sensor.async_setup_entry: `if not metering_points: return`
PlatformDiscover(resp) ==
    /\ pc = "sensor_discover"
    /\ LET call == FetchMeteringPointsCall(token["platform"], resp)
       IN  /\ ClientCall("platform", "fetch_metering_points", "metering-points",
                         resp, call)
           /\ IF call.raised = "none" /\ Truthy(call.ret)
                THEN /\ pc' = "loop"
                     /\ metering_points' = call.ret.s
                     /\ idx' = 1
                     /\ UNCHANGED <<setupResult, coordData, inflight, entities,
                                    registered, lastTick, lastRead>>
                ELSE SetupEnds("ok")
    /\ UNCHANGED limiterVars

\* async_update_data up to its first suspension, for the coordinator of mp whose
\* data is `data`, at clock value t: rate_limit(), then fetch_usage as far as the
\* request. A tick the limiter rejects, or whose fetch_usage returns without a
\* request, finishes here; otherwise it is left in flight.
TickStart(mp, t, data) ==
    LET limit == RateLimitCall(last_called_times, t)
        probe == FetchUsageCall(token["platform"], ClientError)
        result == AfterFetch(mp, probe)
    IN  /\ LimiterStep(t)
        /\ IF ~limit.ok
             THEN /\ coordData' = [coordData EXCEPT ![mp] = data]
                  /\ lastTick' = [mp |-> mp, passed |-> FALSE, hasSum |-> FALSE,
                                  raised |-> "UpdateFailed", before |-> data]
                  /\ UNCHANGED <<apiVars, inflight>>
           ELSE IF ~probe.requested
             THEN /\ ClientCall("platform", "fetch_usage", "time-series", ClientError,
                                probe)
                  /\ coordData' = [coordData EXCEPT ![mp] = Refreshed(data, result)]
                  /\ lastTick' = [mp |-> mp, passed |-> TRUE, hasSum |-> FALSE,
                                  raised |-> result.raised, before |-> data]
                  /\ UNCHANGED inflight
             ELSE /\ requests' = Append(requests, [api |-> "platform",
                                                   endpoint |-> "time-series",
                                                   token |-> token["platform"]])
                  /\ inflight' = [inflight EXCEPT ![mp] = "fetching"]
                  /\ coordData' = [coordData EXCEPT ![mp] = data]
                  /\ UNCHANGED <<token, lastCall, lastTick>>

\* the rest of async_update_data once the transport answered with resp, and the
\* coordinator's handling of what the callback returned or raised
TickFinish(mp, resp) ==
    LET call == FetchUsageCall(token["platform"], resp)
        result == AfterFetch(mp, call)
    IN  /\ lastCall' = [api |-> "platform", op |-> "fetch_usage",
                        tokenBefore |-> token["platform"], raised |-> call.raised,
                        ret |-> call.ret, requested |-> TRUE, failed |-> Failed(resp)]
        /\ coordData' = [coordData EXCEPT ![mp] = Refreshed(coordData[mp], result)]
        /\ inflight' = [inflight EXCEPT ![mp] = "idle"]
        /\ lastTick' = [mp |-> mp, passed |-> TRUE, hasSum |-> HasSum(resp),
                        raised |-> result.raised, before |-> coordData[mp]]
        /\ UNCHANGED <<limiterVars, token, requests>>

\* the platform's loop: a coordinator for metering_points[idx] (data None) and
\* `await coordinator.async_refresh()`, as far as the tick's first suspension
FirstRefreshStart(d) ==
    /\ pc = "loop"
    /\ idx <= Len(metering_points)
    /\ now + d <= MaxPollTime
    /\ TickStart(metering_points[idx], now + d, PyNone)
    /\ IF inflight'[metering_points[idx]] = "idle"
         THEN /\ entities' = Append(entities, metering_points[idx])
              /\ idx' = idx + 1
              /\ pc' = "loop"
         ELSE /\ pc' = "refresh_wait"
              /\ UNCHANGED <<entities, idx>>
    /\ UNCHANGED <<setupResult, metering_points, registered, lastRead>>

\* the first refresh ends and the loop appends the ElectricitySensor
FirstRefreshDone(resp) ==
    /\ pc = "refresh_wait"
    /\ TickFinish(metering_points[idx], resp)
    /\ entities' = Append(entities, metering_points[idx])
    /\ idx' = idx + 1
    /\ pc' = "loop"
    /\ UNCHANGED <<setupResult, metering_points, registered, lastRead>>

\* async_add_entities(entities); both setup functions return
AddEntities ==
    /\ pc = "loop"
    /\ idx > Len(metering_points)
    /\ registered' = entities
    /\ setupResult' = "ok"
    /\ pc' = "running"
    /\ UNCHANGED <<limiterVars, apiVars, metering_points, idx, coordData, inflight,
                   entities, lastTick, lastRead>>

IsRegistered(mp) == \E i \in 1..Len(registered) : registered[i] = mp

\* a refresh of mp's coordinator (ElectricitySensor.async_update or the update
\* interval), d seconds after the last rate_limit(): the tick up to its suspension
PollStart(mp, d) ==
    /\ pc = "running"
    /\ IsRegistered(mp)
    /\ inflight[mp] = "idle"
    /\ now + d <= MaxPollTime
    /\ TickStart(mp, now + d, coordData[mp])
    /\ UNCHANGED <<pc, setupResult, metering_points, idx, entities, registered,
                   lastRead>>

\* the transport answers a tick in flight
PollDone(mp, resp) ==
    /\ pc = "running"
    /\ inflight[mp] = "fetching"
    /\ TickFinish(mp, resp)
    /\ UNCHANGED <<pc, setupResult, metering_points, idx, entities, registered,
                   lastRead>>

\* the host reads the entity's state
native_value(mp) ==
    /\ pc = "running"
    /\ IsRegistered(mp)
    /\ LET read == NativeValue(mp, coordData[mp])
       IN  lastRead' = [mp |-> mp, raised |-> read.raised, value |-> read.value]
    /\ UNCHANGED <<limiterVars, apiVars, pc, setupResult, metering_points, idx,
                   coordData, inflight, entities, registered, lastTick>>

\* Setup with every transport outcome, then poll ticks until MaxSetupRequests
\* requests have been sent
Next ==
    \/ \E resp \in AuthResponses : IntegrationAuthenticate(resp)
    \/ \E resp \in MeteringResponses : IntegrationDiscover(resp)
    \/ \E resp \in AuthResponses : PlatformAuthenticate(resp)
    \/ \E resp \in MeteringResponses : PlatformDiscover(resp)
    \/ \E d \in Steps : FirstRefreshStart(d)
    \/ \E resp \in UsageResponses : FirstRefreshDone(resp)
    \/ AddEntities
    \/ \E mp \in MeterIds, d \in Steps :
          Len(requests) < MaxSetupRequests /\ PollStart(mp, d)
    \/ \E mp \in MeterIds, resp \in UsageResponses : PollDone(mp, resp)
    \/ \E mp \in MeterIds : native_value(mp)

Spec == Init /\ [][Next]_vars

\* A setup that succeeds, then poll ticks of the two metering points without a
\* bound on their number, interleaved at the ticks' suspension points
TokenResponse == Http(200, PyDict("access_token" :> PyStr("T")))
PointsResponse == Http(200, PointsBody(<<"A", "B">>))
PollResponses == {Http(200, SeriesBody(PyDict("sum" :> UsageSum))), ClientError}

NextPoll ==
    \/ IntegrationAuthenticate(TokenResponse)
    \/ IntegrationDiscover(PointsResponse)
    \/ PlatformAuthenticate(TokenResponse)
    \/ PlatformDiscover(PointsResponse)
    \/ \E d \in Steps : FirstRefreshStart(d)
    \/ \E resp \in PollResponses : FirstRefreshDone(resp)
    \/ AddEntities
    \/ \E mp \in MeterIds, d \in Steps : PollStart(mp, d)
    \/ \E mp \in MeterIds, resp \in PollResponses : PollDone(mp, resp)

SpecPoll == Init /\ [][NextPoll]_vars

(***************************************************************************)
(* Claims about the rate limiter                                           *)
(***************************************************************************)
\* the calls of a history that fall in the 60-second window ending at time T
InWindow(history, T) ==
    {i \in 1..Len(history) : history[i] <= T /\ T - history[i] < WINDOW}

\* C1: starting from an empty limiter, with checks at non-decreasing times, no
\* 60-second sliding window contains more than RATE_LIMIT (20) recorded calls:
\* for every recorded call time T, at most 20 recorded calls lie in the window
\* (T - 60, T].
C1_WindowNeverExceedsCeiling ==
    \A k \in 1..Len(accepted) :
        Cardinality(InWindow(accepted, accepted[k])) <= RATE_LIMIT

\* C1 witness: a full window (20 recorded calls) followed by a rejected check
\* and, later, by recorded calls of a second window.
C1_Witness ==
    /\ Len(accepted) > RATE_LIMIT
    /\ Cardinality(InWindow(accepted, accepted[Len(accepted)])) = RATE_LIMIT
    /\ \E i \in 1..Len(results) : ~results[i].ok

\* C2: from an empty limiter, of 21 checks made within one 10-second span
\* exactly the 21st fails; each of the first 20 succeeds and is recorded.
C2_BurstOnlyTwentyFirstFails ==
    (/\ Len(results) >= 1
     /\ Len(results) <= RATE_LIMIT + 1
     /\ results[Len(results)].t - results[1].t <= BurstSpan)
    => /\ \A i \in 1..Len(results) : results[i].ok <=> (i <= RATE_LIMIT)
       /\ Len(last_called_times) = IF Len(results) <= RATE_LIMIT
                                     THEN Len(results) ELSE RATE_LIMIT
       /\ \A i \in 1..Len(last_called_times) : last_called_times[i] = results[i].t

\* C2 witness: the 21st check of a burst that spans more than one clock value
\* has just been rejected.
C2_Witness ==
    /\ Len(results) = RATE_LIMIT + 1
    /\ results[RATE_LIMIT + 1].t - results[1].t <= BurstSpan
    /\ results[RATE_LIMIT + 1].t > results[1].t
    /\ ~results[RATE_LIMIT + 1].ok
    /\ lastOutcome = "exceeded"

\* C8: a check that finds 20 or more timestamps after pruning raises without
\* recording the attempt: the list it leaves is the pruned list, nothing appended.
C8_RejectedNotRecorded ==
    [][lastOutcome' = "exceeded"
         => /\ last_called_times' = PruneTimes(last_called_times, now')
            /\ accepted' = accepted]_vars

\* C8 witness: a rejected check at a later clock value than the calls it
\* found in the window.
C8_Witness ==
    /\ lastOutcome = "exceeded"
    /\ Len(last_called_times) = RATE_LIMIT
    /\ now > last_called_times[1]

(***************************************************************************)
(* Claims about the client                                                 *)
(***************************************************************************)
\* C3: no request to the usage (time-series) endpoint is made while the client
\* holds no cached token: every usage request in the history was sent with a
\* token, and a fetch_usage call made without one returned the empty dict
\* without sending a request.
C3_NoUsageRequestWithoutToken ==
    /\ \A i \in 1..Len(requests) :
          requests[i].endpoint = "time-series" => Truthy(requests[i].token)
    /\ (lastCall.op = "fetch_usage" /\ ~Truthy(lastCall.tokenBefore))
          => /\ lastCall.raised = "none"
             /\ lastCall.ret = EmptyDict
             /\ ~lastCall.requested

\* C3 witness: fetch_usage called on a client whose authenticate was requested
\* but cached no token; it returned empty and sent nothing.
C3_Witness ==
    /\ lastCall.op = "fetch_usage"
    /\ ~Truthy(lastCall.tokenBefore)
    /\ ~lastCall.requested
    /\ \E i \in 1..Len(requests) :
          requests[i].endpoint = "token" /\ requests[i].api = lastCall.api

\* C4: the client never raises to its caller: authenticate returns a bool,
\* fetch_metering_points a list and fetch_usage a structure, and every failed
\* request is mapped to the False / empty sentinel.
C4_ClientNeverRaises ==
    lastCall.op # "none" =>
        /\ lastCall.raised = "none"
        /\ lastCall.op = "authenticate" => lastCall.ret.t = "bool"
        /\ lastCall.op = "fetch_metering_points" => lastCall.ret.t = "list"
        /\ lastCall.op = "fetch_usage" => lastCall.ret.t \in {"dict", "list"}
        /\ lastCall.failed => ~Truthy(lastCall.ret)

(***************************************************************************)
(* Claims about the setup, the poll ticks and the entity                   *)
(***************************************************************************)
\* C5: a tick that passed the rate limiter reports {meteringPointId: sum} exactly
\* when the usage response contains timeSeriesResult.timeSeries.sum; in every
\* other case the tick signals a failure and the reported value is not updated.
C5_TickReportsSumOrFails ==
    (lastTick.mp # "none" /\ lastTick.passed) =>
        IF lastTick.hasSum
          THEN /\ lastTick.raised = "none"
               /\ coordData[lastTick.mp] = PyDict(lastTick.mp :> UsageSum)
          ELSE /\ lastTick.raised # "none"
               /\ coordData[lastTick.mp] = lastTick.before

\* C6: a failed authentication or discovery during setup, in the integration's
\* setup or in the platform's, aborts the setup and reports it failed; setup
\* never ends reported successful with no poll task and no entity.
C6_FailedSetupIsReported ==
    /\ pc = "done" => setupResult = "failed"
    /\ setupResult = "ok" =>
          /\ Len(registered) > 0
          /\ \E m \in MeterIds : coordData[m] # Absent

TokenRequests == {i \in 1..Len(requests) : requests[i].endpoint = "token"}

\* C7: one setup requests the token endpoint exactly once, before any
\* metering-point or usage request, and afterwards one poll task and one entity
\* exist per discovered metering point id.
C7_SetupAuthenticatesOnce ==
    setupResult # "pending" =>
        /\ Cardinality(TokenRequests) = 1
        /\ \A i \in TokenRequests : \A j \in 1..Len(requests) :
              requests[j].endpoint # "token" => i < j
        /\ pc = "running" =>
              /\ registered = metering_points
              /\ \A m \in MeterIds :
                    (coordData[m] # Absent) <=> IsRegistered(m)

\* C10: reading the entity's value never fails, whatever ticks came before
\* (also when the first tick failed and nothing was ever reported): it yields
\* the value last reported for the metering point, or no value.
C10_ReadNeverFails ==
    lastRead.mp # "none" =>
        /\ lastRead.raised = "none"
        /\ lastRead.value \in {PyNone, UsageSum}

\* the usage requests sent so far
UsageRequests == {i \in 1..Len(requests) : requests[i].endpoint = "time-series"}

\* C9: under every interleaving of the metering points' ticks, rate_limit()'s
\* prune-check-append is one step before each usage fetch: no 60-second window
\* holds more than 20 started usage fetches, every usage fetch follows its own
\* recorded timestamp, and no recorded timestamp of the window is lost.
C9_SharedLimiterUnderInterleaving ==
    /\ \A k \in 1..Len(accepted) :
          Cardinality(InWindow(accepted, accepted[k])) <= RATE_LIMIT
    /\ Cardinality(UsageRequests) = Len(accepted)
    /\ last_called_times = PruneTimes(accepted, now)

\* C9 witness: both metering points' ticks are suspended in fetch_usage at once,
\* in a window that is full, after an earlier window's timestamps were pruned.
C9_Witness ==
    /\ \A m \in MeterIds : inflight[m] = "fetching"
    /\ Len(last_called_times) = RATE_LIMIT
    /\ Len(accepted) > RATE_LIMIT
====
